---- MODULE Spec2Model ----
(***************************************************************************)
(* Model of update_agents_with_serena.py: the batch script that inserts or *)
(* replaces the "## Serena MCP Integration" section in every agent file.   *)
(* File contents and the template are real strings; split, join, strip,    *)
(* startswith, lower and the substring test are computed character by      *)
(* character, and line indices are Python's (0-based).                     *)
(***************************************************************************)
EXTENDS Integers, Sequences, FiniteSets, TLC

VARIABLES
    pc,             \* position of main: "start", "loop", "done", "aborted", "crashed"
    runs,           \* number of times the script has been started
    tfile,          \* shared/serena-mcp/AGENT_TEMPLATE_SECTION.md on disk
    fs,             \* the sorted agent files on disk: sequence of contents
    template,       \* main's local `template`
    i,              \* number of completed iterations of the for loop
    cur,            \* index of the agent file of the latest update_agent_file call
    content,        \* update_agent_file's local `content` in the latest call
    result,         \* (success, message) returned by the latest call
    wrote,          \* the latest call opened the file for writing
    opened,         \* agent files opened so far in this run
    printed,        \* per-file status lines printed in this run
    updated_count, replaced_count, added_count, failed_count,
    err             \* exception that left main, "none" if none

vars == <<pc, runs, tfile, fs, template, i, cur, content, result, wrote,
          opened, printed, updated_count, replaced_count, added_count,
          failed_count, err>>

-----------------------------------------------------------------------------
(* Bounds *)

MaxLines == 3        \* lines of a document in the single-document runs
MaxBatchLines == 1   \* lines of a document in the batch runs
NumFiles == 2        \* agent files in the batch runs
MaxRuns == 2         \* times the script is run over the same tree

-----------------------------------------------------------------------------
(* Python string primitives *)

Whitespace == {" ", "\t", "\n", "\r", "\f"}

CharAt(s, k) == SubSeq(s, k, k)

Min(S) == CHOOSE x \in S : \A y \in S : x <= y
Max(S) == CHOOSE x \in S : \A y \in S : x >= y

\* the elements of a finite set of integers in increasing order
RECURSIVE Ascending(_)
Ascending(S) ==
    IF S = {} THEN <<>> ELSE <<Min(S)>> \o Ascending(S \ {Min(S)})

\* str.split(sep) for a one-character separator: the pieces between
\* consecutive occurrences of sep
split(s, sep) ==
    LET P == {k \in 1..Len(s) : CharAt(s, k) = sep}
        cut == <<0>> \o Ascending(P) \o <<Len(s) + 1>>
    IN  [j \in 1..(Cardinality(P) + 1) |-> SubSeq(s, cut[j] + 1, cut[j + 1] - 1)]

\* sep.join(lines)
RECURSIVE join(_, _)
join(sep, lines) ==
    IF Len(lines) = 0 THEN ""
    ELSE IF Len(lines) = 1 THEN lines[1]
    ELSE lines[1] \o sep \o join(sep, Tail(lines))

\* str.strip()
strip(s) ==
    LET N == {k \in 1..Len(s) : CharAt(s, k) \notin Whitespace}
    IN  IF N = {} THEN "" ELSE SubSeq(s, Min(N), Max(N))

\* str.startswith(prefix)
startswith(s, prefix) ==
    Len(prefix) <= Len(s) /\ SubSeq(s, 1, Len(prefix)) = prefix

\* needle in s
Contains(needle, s) ==
    \E k \in 1..(Len(s) - Len(needle) + 1) :
        SubSeq(s, k, k + Len(needle) - 1) = needle

LowerChar(c) ==
    CASE c = "A" -> "a" [] c = "B" -> "b" [] c = "C" -> "c" [] c = "D" -> "d"
      [] c = "E" -> "e" [] c = "F" -> "f" [] c = "G" -> "g" [] c = "H" -> "h"
      [] c = "I" -> "i" [] c = "J" -> "j" [] c = "K" -> "k" [] c = "L" -> "l"
      [] c = "M" -> "m" [] c = "N" -> "n" [] c = "O" -> "o" [] c = "P" -> "p"
      [] c = "Q" -> "q" [] c = "R" -> "r" [] c = "S" -> "s" [] c = "T" -> "t"
      [] c = "U" -> "u" [] c = "V" -> "v" [] c = "W" -> "w" [] c = "X" -> "x"
      [] c = "Y" -> "y" [] c = "Z" -> "z" [] OTHER -> c

\* str.lower()
RECURSIVE lower(_)
lower(s) ==
    IF Len(s) = 0 THEN ""
    ELSE LowerChar(CharAt(s, 1)) \o lower(SubSeq(s, 2, Len(s)))

\* lines[a:b] and lines[a:] with Python's 0-based bounds
Slice(lines, a, b) == SubSeq(lines, a + 1, b)
SliceFrom(lines, a) == SubSeq(lines, a + 1, Len(lines))

\* lines[k] with Python's 0-based index
At(lines, k) == lines[k + 1]

-----------------------------------------------------------------------------
(* The script's functions *)

None == -1

SerenaHeading == "## Serena MCP Integration"

\* variant: the keyword test is left out
already_has_heading_only(c) == Contains(SerenaHeading, c)

already_has_serena_section(c) ==
    Contains(SerenaHeading, c) \/ Contains("serena", lower(c))

\* the while loop that decrements k while k > floor and lines[k - 1] is blank
RECURSIVE BackUp(_, _, _)
BackUp(lines, k, floor) ==
    IF k > floor /\ strip(At(lines, k - 1)) = "" THEN BackUp(lines, k - 1, floor)
    ELSE k

\* variant: the scan for the end has no break and keeps the last "## " line
find_serena_section_bounds_last(c) ==
    LET lines == split(c, "\n")
        S == {k \in 0..(Len(lines) - 1) : strip(At(lines, k)) = SerenaHeading}
    IN  IF S = {} THEN <<None, None>>
        ELSE LET start_line == Min(S)
                 E == {k \in (start_line + 1)..(Len(lines) - 1) :
                          /\ startswith(strip(At(lines, k)), "## ")
                          /\ ~startswith(strip(At(lines, k)), "### ")}
                 end_line == IF E = {} THEN Len(lines) ELSE Max(E)
             IN  <<start_line, BackUp(lines, end_line, start_line)>>

\* variant: any heading line, of whatever level, ends the section
find_serena_section_bounds_anyheading(c) ==
    LET lines == split(c, "\n")
        S == {k \in 0..(Len(lines) - 1) : strip(At(lines, k)) = SerenaHeading}
    IN  IF S = {} THEN <<None, None>>
        ELSE LET start_line == Min(S)
                 E == {k \in (start_line + 1)..(Len(lines) - 1) :
                          startswith(strip(At(lines, k)), "#")}
                 end_line == IF E = {} THEN Len(lines) ELSE Min(E)
             IN  <<start_line, BackUp(lines, end_line, start_line)>>

find_serena_section_bounds(c) ==
    LET lines == split(c, "\n")
        S == {k \in 0..(Len(lines) - 1) : strip(At(lines, k)) = SerenaHeading}
    IN  IF S = {} THEN <<None, None>>
        ELSE LET start_line == Min(S)
                 E == {k \in (start_line + 1)..(Len(lines) - 1) :
                          /\ startswith(strip(At(lines, k)), "## ")
                          /\ ~startswith(strip(At(lines, k)), "### ")}
                 end_line == IF E = {} THEN Len(lines) ELSE Min(E)
             IN  <<start_line, BackUp(lines, end_line, start_line)>>

final_sections ==
    << "## Example Interactions",
       "## Key Distinctions",
       "## Output Examples",
       "## Workflow Position",
       "## See Also" >>

\* variant: the first anchor of the list that occurs decides, not the
\* earliest line
find_insertion_point_priority(c) ==
    LET lines == split(c, "\n")
        Hits(j) == {k \in 0..(Len(lines) - 1) :
                       startswith(strip(At(lines, k)), final_sections[j])}
        J == {j \in 1..Len(final_sections) : Hits(j) # {}}
        insertion_line == IF J = {} THEN Len(lines) ELSE Min(Hits(Min(J)))
    IN  IF insertion_line = Len(lines) THEN Len(lines)
        ELSE BackUp(lines, insertion_line, 0)

\* variant: without an anchor the last line index is returned
find_insertion_point_lastindex(c) ==
    LET lines == split(c, "\n")
        A == {k \in 0..(Len(lines) - 1) :
                 \E j \in 1..Len(final_sections) :
                     startswith(strip(At(lines, k)), final_sections[j])}
        insertion_line == IF A = {} THEN Len(lines) ELSE Min(A)
    IN  IF insertion_line = Len(lines) THEN Len(lines) - 1
        ELSE BackUp(lines, insertion_line, 0)

find_insertion_point(c) ==
    LET lines == split(c, "\n")
        A == {k \in 0..(Len(lines) - 1) :
                 \E j \in 1..Len(final_sections) :
                     startswith(strip(At(lines, k)), final_sections[j])}
        insertion_line == IF A = {} THEN Len(lines) ELSE Min(A)
    IN  IF insertion_line = Len(lines) THEN Len(lines)
        ELSE BackUp(lines, insertion_line, 0)

\* variant: replace mode keeps lines[start_line:] instead of lines[end_line:]
update_agent_file_keeps_section(c, t) ==
    LET lines == split(c, "\n")
        template_lines == split(t, "\n")
    IN  IF already_has_serena_section(c)
        THEN LET b == find_serena_section_bounds(c)
             IN  IF b[1] = None
                 THEN [success |-> FALSE,
                       message |-> "Could not find Serena section bounds",
                       write |-> FALSE, new_content |-> c]
                 ELSE LET start_line == BackUp(lines, b[1], 0)
                          new_lines == Slice(lines, 0, start_line) \o <<"", "">>
                                       \o template_lines \o <<"", "">>
                                       \o SliceFrom(lines, start_line)
                      IN  [success |-> TRUE,
                           message |-> "Replaced existing Serena section",
                           write |-> TRUE,
                           new_content |-> join("\n", new_lines)]
        ELSE LET insertion_point == find_insertion_point(c)
                 new_lines == Slice(lines, 0, insertion_point) \o <<"", "">>
                              \o template_lines \o <<"", "">>
                              \o SliceFrom(lines, insertion_point)
             IN  [success |-> TRUE,
                  message |-> "Added new Serena section",
                  write |-> TRUE,
                  new_content |-> join("\n", new_lines)]

\* update_agent_file after the read: what it returns and what it writes
update_agent_file(c, t) ==
    LET lines == split(c, "\n")
        template_lines == split(t, "\n")
    IN  IF already_has_serena_section(c)
        THEN LET b == find_serena_section_bounds(c)
             IN  IF b[1] = None
                 THEN [success |-> FALSE,
                       message |-> "Could not find Serena section bounds",
                       write |-> FALSE, new_content |-> c]
                 ELSE LET start_line == BackUp(lines, b[1], 0)
                          new_lines == Slice(lines, 0, start_line) \o <<"", "">>
                                       \o template_lines \o <<"", "">>
                                       \o SliceFrom(lines, b[2])
                      IN  [success |-> TRUE,
                           message |-> "Replaced existing Serena section",
                           write |-> TRUE,
                           new_content |-> join("\n", new_lines)]
        ELSE LET insertion_point == find_insertion_point(c)
                 new_lines == Slice(lines, 0, insertion_point) \o <<"", "">>
                              \o template_lines \o <<"", "">>
                              \o SliceFrom(lines, insertion_point)
             IN  [success |-> TRUE,
                  message |-> "Added new Serena section",
                  write |-> TRUE,
                  new_content |-> join("\n", new_lines)]

\* find_agent_files: the sorted list of agent files
agent_files == 1..Len(fs)

-----------------------------------------------------------------------------
(* Inputs *)

DocLines ==
    {"", SerenaHeading, "## See Also", "## Example Interactions",
     "### Notes", "# Title", "Uses Serena"}

BatchLines == {SerenaHeading, "text", "Uses Serena"}

Templates ==
    {"## Serena MCP Integration\nUse Serena.\n",
     "## Serena MCP Integration\n### Usage\ntext"}

SeqsUpTo(S, n) == UNION {[1..m -> S] : m \in 1..n}

Documents(S, n) == {join("\n", ls) : ls \in SeqsUpTo(S, n)}

TemplateFiles ==
    {[exists |-> TRUE, data |-> t] : t \in Templates}
        \cup {[exists |-> FALSE, data |-> ""]}

NoResult == [success |-> FALSE, message |-> ""]

-----------------------------------------------------------------------------
(* State machine *)

InitLocals ==
    /\ pc = "start"
    /\ runs = 1
    /\ template = ""
    /\ i = 0
    /\ cur = 0
    /\ content = ""
    /\ result = NoResult
    /\ wrote = FALSE
    /\ opened = {}
    /\ printed = <<>>
    /\ updated_count = 0
    /\ replaced_count = 0
    /\ added_count = 0
    /\ failed_count = 0
    /\ err = "none"

\* a tree of NumFiles agent files
Init ==
    /\ tfile \in TemplateFiles
    /\ fs \in [1..NumFiles -> Documents(BatchLines, MaxBatchLines)]
    /\ InitLocals

\* a tree with a single agent file
InitDoc ==
    /\ tfile \in TemplateFiles
    /\ fs \in {<<d>> : d \in Documents(DocLines, MaxLines)}
    /\ InitLocals

\* main, lines 164-180: the template is read and the counters are reset
ReadTemplate ==
    /\ pc = "start"
    /\ tfile.exists
    /\ template' = tfile.data
    /\ pc' = "loop"
    /\ i' = 0
    /\ updated_count' = 0
    /\ replaced_count' = 0
    /\ added_count' = 0
    /\ failed_count' = 0
    /\ UNCHANGED <<runs, tfile, fs, cur, content, result, wrote, opened,
                   printed, err>>

\* variant: the failed read is swallowed and the run goes on with an empty
\* template
ReadTemplateFails_swallowed ==
    /\ pc = "start"
    /\ ~tfile.exists
    /\ template' = ""
    /\ pc' = "loop"
    /\ UNCHANGED <<runs, tfile, fs, i, cur, content, result, wrote, opened,
                   printed, updated_count, replaced_count, added_count,
                   failed_count, err>>

\* read_template raises: open() of a missing template
ReadTemplateFails ==
    /\ pc = "start"
    /\ ~tfile.exists
    /\ pc' = "aborted"
    /\ err' = "template"
    /\ UNCHANGED <<runs, tfile, fs, template, i, cur, content, result, wrote,
                   opened, printed, updated_count, replaced_count,
                   added_count, failed_count>>

\* the effect of an iteration in which update_agent_file returned u
Iterate(u) ==
    /\ cur' = i + 1
    /\ opened' = opened \cup {i + 1}
    /\ content' = fs[i + 1]
    /\ result' = [success |-> u.success, message |-> u.message]
    /\ wrote' = u.write
    /\ fs' = IF u.write THEN [fs EXCEPT ![i + 1] = u.new_content] ELSE fs
    /\ printed' = Append(printed, [ok |-> u.success, file |-> i + 1,
                                   message |-> u.message])
    /\ IF u.success
       THEN /\ updated_count' = updated_count + 1
            /\ replaced_count' = IF Contains("Replaced", u.message)
                                 THEN replaced_count + 1 ELSE replaced_count
            /\ added_count' = IF ~Contains("Replaced", u.message)
                                 /\ Contains("Added", u.message)
                              THEN added_count + 1 ELSE added_count
            /\ UNCHANGED failed_count
       ELSE /\ failed_count' = failed_count + 1
            /\ UNCHANGED <<updated_count, replaced_count, added_count>>
    /\ i' = i + 1
    /\ UNCHANGED <<pc, runs, tfile, template, err>>

\* one iteration of the for loop: update_agent_file returns and main counts
UpdateAgentFile ==
    /\ pc = "loop"
    /\ i < Len(fs)
    /\ Iterate(update_agent_file(fs[i + 1], template))

\* open(file_path, 'r') or f.read() raises; nothing catches it
UpdateReadError ==
    /\ pc = "loop"
    /\ i < Len(fs)
    /\ cur' = i + 1
    /\ opened' = opened \cup {i + 1}
    /\ result' = NoResult
    /\ wrote' = FALSE
    /\ pc' = "crashed"
    /\ err' = "read"
    /\ UNCHANGED <<runs, tfile, fs, template, i, content, printed,
                   updated_count, replaced_count, added_count, failed_count>>

\* open(file_path, 'w') or f.write() raises; nothing catches it.  The file
\* is either as it was (open failed) or truncated (write failed).
UpdateWriteError ==
    /\ pc = "loop"
    /\ i < Len(fs)
    /\ update_agent_file(fs[i + 1], template).write
    /\ cur' = i + 1
    /\ opened' = opened \cup {i + 1}
    /\ content' = fs[i + 1]
    /\ result' = NoResult
    /\ wrote' = TRUE
    /\ \E c \in {fs[i + 1], ""} : fs' = [fs EXCEPT ![i + 1] = c]
    /\ pc' = "crashed"
    /\ err' = "write"
    /\ UNCHANGED <<runs, tfile, template, i, printed, updated_count,
                   replaced_count, added_count, failed_count>>

\* main, lines 197-206: the loop is over and the summary is printed
Summary ==
    /\ pc = "loop"
    /\ i = Len(fs)
    /\ pc' = "done"
    /\ UNCHANGED <<runs, tfile, fs, template, i, cur, content, result, wrote,
                   opened, printed, updated_count, replaced_count,
                   added_count, failed_count, err>>

\* the script is started again over the same tree
Rerun ==
    /\ pc = "done"
    /\ runs < MaxRuns
    /\ runs' = runs + 1
    /\ pc' = "start"
    /\ template' = ""
    /\ i' = 0
    /\ cur' = 0
    /\ content' = ""
    /\ result' = NoResult
    /\ wrote' = FALSE
    /\ opened' = {}
    /\ printed' = <<>>
    /\ updated_count' = 0
    /\ replaced_count' = 0
    /\ added_count' = 0
    /\ failed_count' = 0
    /\ UNCHANGED <<tfile, fs, err>>

Next ==
    \/ ReadTemplate
    \/ ReadTemplateFails
    \/ UpdateAgentFile
    \/ UpdateReadError
    \/ UpdateWriteError
    \/ Summary
    \/ Rerun

Spec == Init /\ [][Next]_vars

SpecDoc == InitDoc /\ [][Next]_vars

-----------------------------------------------------------------------------
(* Vocabulary of the properties (1-based line sequences) *)

Lines(c) == split(c, "\n")

IsBlank(l) == strip(l) = ""

IsTarget(l) == strip(l) = SerenaHeading

IsLevel2(l) == startswith(strip(l), "## ")

IsLevel1(l) == startswith(strip(l), "# ")

IsAnchor(l) == \E j \in 1..Len(final_sections) : startswith(strip(l), final_sections[j])

HasKeyword(c) == Contains("serena", lower(c))

TargetLines(ls) == {k \in 1..Len(ls) : IsTarget(ls[k])}

HeadingCount(c) == Cardinality(TargetLines(Lines(c)))

AnchorLines(ls) == {k \in 1..Len(ls) : IsAnchor(ls[k])}

AllBlank(ls) == \A k \in 1..Len(ls) : IsBlank(ls[k])

\* ls without its trailing blank lines
RTrimBlank(ls) ==
    LET N == {k \in 1..Len(ls) : ~IsBlank(ls[k])}
    IN  IF N = {} THEN <<>> ELSE SubSeq(ls, 1, Max(N))

\* the block occupies lines p .. p + Len(block) - 1 of ls
BlockAt(ls, block, p) ==
    /\ p >= 1
    /\ p + Len(block) - 1 <= Len(ls)
    /\ SubSeq(ls, p, p + Len(block) - 1) = block

\* update_agent_file returned for file cur, and content is what it read
Returned == cur > 0 /\ err = "none" /\ result.message # ""

Replaced == Returned /\ result.message = "Replaced existing Serena section"

Added == Returned /\ result.message = "Added new Serena section"

Out == Lines(fs[cur])

TL == Lines(template)

-----------------------------------------------------------------------------
(* Properties *)

\* C1: a second run of the script leaves a document that update_agent_file
\* rewrites exactly as the first run left it (applying the transformation
\* twice equals applying it once; no blank lines accumulate).
C1_Idempotent ==
    (runs >= 2 /\ Returned /\ result.success) => fs[cur] = content

\* C2 as claimed: every processed document ends with exactly one target
\* heading line whose section is the template block, for a template holding
\* the target heading once.
C2_ExactlyOneSection ==
    (Returned /\ HeadingCount(template) = 1) =>
        LET out == Out
            tl == TL
        IN  /\ Cardinality(TargetLines(out)) = 1
            /\ BlockAt(out, tl, Min(TargetLines(out)) - Min(TargetLines(tl)) + 1)

\* C2 amended: when update_agent_file reports success on a document that had
\* at most one target heading line, and the template holds the target heading
\* once, the document ends with exactly one target heading line and the lines
\* around it are the template block.
C2_OneSectionAfterSuccess ==
    (Returned /\ result.success /\ HeadingCount(content) <= 1
        /\ HeadingCount(template) = 1) =>
        LET out == Out
            tl == TL
        IN  /\ Cardinality(TargetLines(out)) = 1
            /\ BlockAt(out, tl, Min(TargetLines(out)) - Min(TargetLines(tl)) + 1)

C2_Witness ==
    /\ Replaced
    /\ HeadingCount(content) = 1
    /\ HeadingCount(template) = 1
    /\ HeadingCount(fs[cur]) = 1
    /\ fs[cur] # content

\* C3: in every rewritten document the template block is separated from the
\* preceding non-blank line and from the following non-blank line by exactly
\* two blank lines.
C3_TwoBlankFrame ==
    (Returned /\ result.success) =>
        LET out == Out
            tl == TL
        IN  \E p \in 1..Len(out) :
                /\ BlockAt(out, tl, p)
                /\ LET q == p + Len(tl) - 1
                       B == {k \in 1..(p - 1) : ~IsBlank(out[k])}
                       F == {k \in (q + 1)..Len(out) : ~IsBlank(out[k])}
                   IN  /\ B # {} => p - Max(B) - 1 = 2
                       /\ F # {} => Min(F) - q - 1 = 2

\* C4: in insert mode with an anchor present, the output ends with the
\* original lines from the earliest anchor line on, only blank lines stand
\* between the template block and that anchor, and the lines before the block
\* are the original lines before the anchor (up to trailing blank lines).
C4_InsertBeforeEarliestAnchor ==
    (Added /\ AnchorLines(Lines(content)) # {}) =>
        LET L == Lines(content)
            out == Out
            tl == TL
            a == Min(AnchorLines(L))
            n == Len(out)
            s == n - (Len(L) - a)
        IN  /\ s >= 1
            /\ SubSeq(out, s, n) = SubSeq(L, a, Len(L))
            /\ \E p \in 1..s :
                   /\ BlockAt(out, tl, p)
                   /\ p + Len(tl) - 1 < s
                   /\ AllBlank(SubSeq(out, p + Len(tl), s - 1))
                   /\ RTrimBlank(SubSeq(out, 1, p - 1)) = RTrimBlank(SubSeq(L, 1, a - 1))

C4_Witness ==
    /\ Added
    /\ LET L == Lines(content)
       IN  /\ Len(L) = 3
           /\ L[1] = "# Title"
           /\ L[2] = "## See Also"
           /\ L[3] = "## Example Interactions"
    /\ fs[cur] # content

\* C5: in replace mode with a level-2 heading after the target heading, the
\* output ends with that heading and every line after it, unchanged; only
\* blank lines stand between the template block and that heading (the target
\* heading and its body are gone); the lines before the block are the
\* original lines before the target heading (up to trailing blank lines).
C5_ReplaceFrame ==
    LET L == Lines(content)
        t == Min(TargetLines(L))
        H == {k \in (t + 1)..Len(L) : IsLevel2(L[k])}
    IN  (Replaced /\ TargetLines(L) # {} /\ H # {}) =>
            LET h == Min(H)
                out == Out
                tl == TL
                n == Len(out)
                s == n - (Len(L) - h)
            IN  /\ s >= 1
                /\ SubSeq(out, s, n) = SubSeq(L, h, Len(L))
                /\ \E p \in 1..s :
                       /\ BlockAt(out, tl, p)
                       /\ p + Len(tl) - 1 < s
                       /\ AllBlank(SubSeq(out, p + Len(tl), s - 1))
                       /\ RTrimBlank(SubSeq(out, 1, p - 1))
                              = RTrimBlank(SubSeq(L, 1, t - 1))

C5_Witness ==
    /\ Replaced
    /\ LET L == Lines(content)
       IN  /\ Len(L) = 3
           /\ IsTarget(L[1])
           /\ L[2] = "### Notes"
           /\ IsLevel2(L[3])
    /\ fs[cur] # content

\* C6: a document that has the keyword but no target heading line makes
\* update_agent_file report failure without writing; the file is as it was,
\* the failure is printed and counted, and the loop goes on.
C6_BoundsNotFoundIsPerDocumentFailure ==
    (cur > 0 /\ err = "none"
        /\ HasKeyword(content) /\ HeadingCount(content) = 0) =>
        /\ fs[cur] = content
        /\ result = [success |-> FALSE,
                     message |-> "Could not find Serena section bounds"]
        /\ ~wrote
        /\ pc \in {"loop", "done"}
        /\ i = cur
        /\ printed[cur] = [ok |-> FALSE, file |-> cur,
                           message |-> "Could not find Serena section bounds"]
        /\ failed_count = Cardinality({k \in 1..Len(printed) : ~printed[k].ok})
        /\ failed_count >= 1

C6_Witness ==
    /\ Len(printed) = 2
    /\ ~printed[1].ok
    /\ printed[2].ok
    /\ failed_count = 1
    /\ updated_count = 1
    /\ pc = "done"

\* C7: a read or write error on one document does not halt the batch: the
\* loop goes on and the document is counted as failed.
C7_IOErrorDoesNotHalt ==
    err \in {"read", "write"} => (pc \in {"loop", "done"} /\ failed_count >= 1)

\* C8: in insert mode without anchors the output begins with every original
\* line in order, the template block comes after them, and only blank lines
\* stand around the block.
C8_AppendAtEnd ==
    (Returned /\ ~HasKeyword(content) /\ AnchorLines(Lines(content)) = {}) =>
        LET L == Lines(content)
            out == Out
            tl == TL
        IN  /\ result.success
            /\ SubSeq(out, 1, Len(L)) = L
            /\ \E p \in (Len(L) + 1)..Len(out) :
                   /\ BlockAt(out, tl, p)
                   /\ AllBlank(SubSeq(out, Len(L) + 1, p - 1))
                   /\ AllBlank(SubSeq(out, p + Len(tl), Len(out)))

C8_Witness ==
    /\ Added
    /\ AnchorLines(Lines(content)) = {}
    /\ \E k \in 1..Len(Lines(content)) : ~IsBlank(Lines(content)[k])
    /\ fs[cur] # content

\* C9: no agent file is opened in a run unless the template was loaded, and
\* a run whose template cannot be read aborts with no file opened, written
\* or reported.
C9_TemplateBeforeAnyDocument ==
    /\ opened # {} => (tfile.exists /\ template = tfile.data)
    /\ (~tfile.exists /\ pc # "start") =>
           (pc = "aborted" /\ opened = {} /\ ~wrote /\ printed = <<>> /\ cur = 0)

C9_Witness ==
    pc = "aborted" /\ err = "template" /\ opened = {} /\ ~tfile.exists

\* the end boundary: the first line after the target heading that satisfies
\* Ends (or the end of the document), moved back over trailing blank lines
EndBoundary(L, t, Ends(_), e) ==
    LET E == {k \in (t + 1)..Len(L) : Ends(L[k])}
        e0 == IF E = {} THEN Len(L) ELSE Min(E) - 1
    IN  /\ t <= e /\ e <= e0
        /\ ~IsBlank(L[e])
        /\ AllBlank(SubSeq(L, e + 1, e0))

IsLevel1Or2(l) == IsLevel2(l) \/ IsLevel1(l)

\* C10 as claimed: the section ends at the first later level-2 or level-1
\* heading line, else at the end of the document, and 0 <= start < end <= n
\* with a non-blank line just before end.
C10_EndsAtLevel1Or2 ==
    LET L == Lines(content)
        b == find_serena_section_bounds(content)
    IN  (Returned /\ TargetLines(L) # {}) =>
            /\ b[1] = Min(TargetLines(L)) - 1
            /\ 0 <= b[1] /\ b[1] < b[2] /\ b[2] <= Len(L)
            /\ EndBoundary(L, b[1] + 1, IsLevel1Or2, b[2])

\* C10 amended: the section ends at the first later level-2 heading line
\* (trimmed text beginning with "## "), never at a level-1 or deeper heading,
\* else at the end of the document, and 0 <= start < end <= n with a
\* non-blank line just before end.
C10_EndsAtNextLevel2 ==
    LET L == Lines(content)
        b == find_serena_section_bounds(content)
    IN  (Returned /\ TargetLines(L) # {}) =>
            /\ b[1] = Min(TargetLines(L)) - 1
            /\ 0 <= b[1] /\ b[1] < b[2] /\ b[2] <= Len(L)
            /\ EndBoundary(L, b[1] + 1, IsLevel2, b[2])

C10_Witness ==
    LET L == Lines(content)
        b == find_serena_section_bounds(content)
    IN  /\ Replaced
        /\ Len(L) = 3
        /\ IsTarget(L[1])
        /\ L[2] = "### Notes"
        /\ L[3] = "# Title"
        /\ b = <<0, 3>>
====
